---- MODULE Spec2Model ----
(***************************************************************************)
(* Task persistence and CRUD core of the Kanban board: the three variants  *)
(* of the store found in the repository,                                   *)
(*   "tasks"   src/tasks.py      (cargar_tareas, guardar_tareas, ...)      *)
(*   "models"  src/app/models.py behind src/app/routes.py                  *)
(*   "backend" src/backend.py                                              *)
(* over one JSON file per deployment.                                      *)
(***************************************************************************)
EXTENDS Integers, Sequences, FiniteSets, TLC

\* ------------------------------------------------------------------------
\* Bounds of the model
\* ------------------------------------------------------------------------
\* largest id add may assign (caps the otherwise unbounded id counter)
MaxId == 2
\* longest collection handed directly to the functions of tasks.py
MaxArgLen == 2

\* ------------------------------------------------------------------------
\* JSON values.  A Python/JSON value is [t, n, s]: t its type, n the number
\* (for "num"), s the characters (for "str"); strings are sequences of
\* one-character strings so that strip() is computed, not assumed.
\* ------------------------------------------------------------------------
Absent == [t |-> "absent", n |-> 0, s |-> <<>>]
Null == [t |-> "null", n |-> 0, s |-> <<>>]
Num(k) == [t |-> "num", n |-> k, s |-> <<>>]
Str(chars) == [t |-> "str", n |-> 0, s |-> chars]

Whitespace == {" ", "\t", "\n"}

RECURSIVE lstrip(_)
lstrip(s) ==
  IF s # <<>> /\ Head(s) \in Whitespace THEN lstrip(Tail(s)) ELSE s

RECURSIVE rstrip(_)
rstrip(s) ==
  IF s # <<>> /\ s[Len(s)] \in Whitespace
    THEN rstrip(SubSeq(s, 1, Len(s) - 1))
    ELSE s

\* str.strip(): leading and trailing whitespace removed
strip(s) == rstrip(lstrip(s))

Digits == <<"0", "1", "2", "3", "4", "5", "6", "7", "8", "9">>

RECURSIVE Decimal(_)
Decimal(k) ==
  IF k < 10 THEN <<Digits[k + 1]>>
  ELSE Decimal(k \div 10) \o <<Digits[(k % 10) + 1]>>

\* str(value) as routes.py applies it to the payload's content
str(v) ==
  CASE v.t = "str" -> v.s
    [] v.t = "num" -> IF v.n < 0 THEN <<"-">> \o Decimal(0 - v.n) ELSE Decimal(v.n)
    [] OTHER -> <<"N", "o", "n", "e">>

DEFAULT_STATE == Str(<<"P", "o", "r", " ", "H", "a", "c", "e", "r">>)
Hecho == Str(<<"H", "e", "c", "h", "o">>)

\* ------------------------------------------------------------------------
\* JSON objects and the text of the tasks file.  An object is the sequence
\* of its key/value members, in the order json.dump writes them; the file's
\* text is the sequence of tokens "[", one per object, "]".
\* ------------------------------------------------------------------------
Member(key, val) == [k |-> key, v |-> val]

HasKey(d, key) == \E i \in 1..Len(d) : d[i].k = key

\* data[key] / data.get(key, default); an object has each key once
Get(d, key, default) ==
  IF HasKey(d, key)
    THEN d[CHOOSE i \in 1..Len(d) : d[i].k = key].v
    ELSE default

Tok(kind, obj) == [kind |-> kind, obj |-> obj]

\* json.dump(list of objects, f)
json_dump(objs) ==
  <<Tok("[", <<>>)>> \o [i \in 1..Len(objs) |-> Tok("obj", objs[i])]
    \o <<Tok("]", <<>>)>>

\* whether json.load accepts the text: only a complete array parses; the
\* empty text and every proper prefix of an array raise JSONDecodeError
json_ok(text) ==
  /\ Len(text) >= 2
  /\ text[1].kind = "["
  /\ text[Len(text)].kind = "]"
  /\ \A i \in 2..(Len(text) - 1) : text[i].kind = "obj"

\* json.load(f) on a text it accepts
json_load(text) == [i \in 1..(Len(text) - 2) |-> text[i + 1].obj]

\* the file system's view of one path
NoFile == [exists |-> FALSE, text |-> <<>>]
FileWith(text) == [exists |-> TRUE, text |-> text]


\* ------------------------------------------------------------------------
\* Helpers on sequences
\* ------------------------------------------------------------------------
Max(S) == CHOOSE x \in S : \A y \in S : y <= x

\* ------------------------------------------------------------------------
\* src/tasks.py : the collection is a list of dicts
\* ------------------------------------------------------------------------
\* cargar_tareas: [] when the file is missing, [] when it does not parse
cargar_tareas(f) ==
  IF ~f.exists THEN <<>>
  ELSE IF json_ok(f.text) THEN json_load(f.text)
  ELSE <<>>

\* the text guardar_tareas writes to the temporary file
guardar_tareas_text(tareas) == json_dump(tareas)

\* guardar_tareas run to completion: the temporary file replaces the file
guardar_tareas(tareas) == FileWith(guardar_tareas_text(tareas))

\* faulty variant: the id taken from the length of the collection
generar_id_unico_by_len(tareas) == Len(tareas) + 1

generar_id_unico(tareas) ==
  IF tareas = <<>> THEN 1
  ELSE Max({Get(tareas[i], "id", Absent).n : i \in 1..Len(tareas)}) + 1

\* ------------------------------------------------------------------------
\* src/app/models.py : Task(id, content, state)
\* ------------------------------------------------------------------------
models_to_dict(t) ==
  <<Member("id", Num(t.id)), Member("content", t.content), Member("state", t.state)>>

\* faulty variant: the state of the file ignored
models_from_dict_default_state(d) ==
  [id |-> Get(d, "id", Absent).n,
   content |-> Get(d, "content", Absent),
   state |-> DEFAULT_STATE]

models_from_dict(d) ==
  [id |-> Get(d, "id", Absent).n,
   content |-> Get(d, "content", Absent),
   state |-> Get(d, "state", DEFAULT_STATE)]

\* _load_tasks: [err, tasks]; a missing file and a file that does not
\* parse both give [], never an error; otherwise from_dict of each item
\* json.load returns (the objects between the text's brackets)
models_load_tasks(f) ==
  IF ~f.exists THEN [err |-> FALSE, tasks |-> <<>>]
  ELSE IF json_ok(f.text)
    THEN [err |-> FALSE,
          tasks |-> [i \in 1..(Len(f.text) - 2) |-> models_from_dict(f.text[i + 1].obj)]]
  ELSE [err |-> FALSE, tasks |-> <<>>]

\* the text _save_tasks writes
models_save_text(tasks) == json_dump([i \in 1..Len(tasks) |-> models_to_dict(tasks[i])])

\* faulty variant: the id taken from the length of the list
models_new_id_by_len(tasks) == Len(tasks) + 1

\* max((t.id for t in tasks), default=0) + 1
models_new_id(tasks) ==
  IF tasks = <<>> THEN 0 + 1
  ELSE Max({tasks[i].id : i \in 1..Len(tasks)}) + 1

\* ------------------------------------------------------------------------
\* src/backend.py : Task(id, contenido, estado)
\* ------------------------------------------------------------------------
backend_to_dict(t) ==
  <<Member("id", Num(t.id)), Member("contenido", t.contenido), Member("estado", t.estado)>>

\* Task(**item)
backend_from_item(d) ==
  [id |-> Get(d, "id", Absent).n,
   contenido |-> Get(d, "contenido", Absent),
   estado |-> Get(d, "estado", Absent)]

\* faulty variant: the decode error caught and answered with [], as models.py does
backend_load_tasks_lenient(f) ==
  IF ~f.exists THEN [err |-> FALSE, tasks |-> <<>>]
  ELSE IF json_ok(f.text)
    THEN [err |-> FALSE,
          tasks |-> [i \in 1..(Len(f.text) - 2) |-> backend_from_item(f.text[i + 1].obj)]]
  ELSE [err |-> FALSE, tasks |-> <<>>]

\* _load_tasks: [] when the file is missing; json.load's JSONDecodeError is
\* not caught, so a file that does not parse is an error; otherwise
\* Task(**item) of each item json.load returns
backend_load_tasks(f) ==
  IF ~f.exists THEN [err |-> FALSE, tasks |-> <<>>]
  ELSE IF json_ok(f.text)
    THEN [err |-> FALSE,
          tasks |-> [i \in 1..(Len(f.text) - 2) |-> backend_from_item(f.text[i + 1].obj)]]
  ELSE [err |-> TRUE, tasks |-> <<>>]

backend_save_text(tasks) == json_dump([i \in 1..Len(tasks) |-> backend_to_dict(tasks[i])])

backend_new_id(tasks) ==
  IF tasks = <<>> THEN 0 + 1
  ELSE Max({tasks[i].id : i \in 1..Len(tasks)}) + 1


\* ------------------------------------------------------------------------
\* Request handlers.  A handler's outcome is
\*   [status, save, tasks, id]
\* status the HTTP status, save whether _save_tasks is reached, tasks the
\* list handed to it, id the id of the task the response carries.
\* ------------------------------------------------------------------------
Outcome(status, save, tasks, id) ==
  [status |-> status, save |-> save, tasks |-> tasks, id |-> id]

\* dict.get(key): a missing key reads as None
pyget(v) == IF v.t = "absent" THEN Null ELSE v

\* index of the first task of the list with this id, 0 when there is none
FirstWithId(tasks, task_id) ==
  IF \E i \in 1..Len(tasks) : tasks[i].id = task_id
    THEN CHOOSE i \in 1..Len(tasks) :
           tasks[i].id = task_id /\ \A j \in 1..(i - 1) : tasks[j].id # task_id
    ELSE 0

\* ---- src/app/models.py ----
models_add_task(f, content) ==
  LET tasks == models_load_tasks(f).tasks
      new_id == models_new_id(tasks)
      task == [id |-> new_id, content |-> content, state |-> DEFAULT_STATE]
  IN Outcome(201, TRUE, Append(tasks, task), new_id)

\* faulty variant: the state assigned whether or not it was given
models_apply_update_always(t, content, state) ==
  [id |-> t.id,
   content |-> IF content # Null THEN content ELSE t.content,
   state |-> state]

\* the assignments update_task makes to the task it found
models_apply_update(t, content, state) ==
  [id |-> t.id,
   content |-> IF content # Null THEN content ELSE t.content,
   state |-> IF state # Null THEN state ELSE t.state]

\* KeyError is reported as status 404, as routes.py maps it
models_update_task(f, task_id, content, state) ==
  LET tasks == models_load_tasks(f).tasks
      i == FirstWithId(tasks, task_id)
  IN IF i = 0 THEN Outcome(404, FALSE, <<>>, task_id)
     ELSE Outcome(200, TRUE,
                  [tasks EXCEPT ![i] = models_apply_update(tasks[i], content, state)],
                  task_id)

\* faulty variant: the filter keeps the ids above task_id only
models_delete_task_above(f, task_id) ==
  LET tasks == models_load_tasks(f).tasks
      new_tasks == SelectSeq(tasks, LAMBDA t : t.id > task_id)
  IN IF Len(new_tasks) = Len(tasks) THEN Outcome(404, FALSE, <<>>, task_id)
     ELSE Outcome(200, TRUE, new_tasks, task_id)

models_delete_task(f, task_id) ==
  LET tasks == models_load_tasks(f).tasks
      new_tasks == SelectSeq(tasks, LAMBDA t : t.id # task_id)
  IN IF Len(new_tasks) = Len(tasks) THEN Outcome(404, FALSE, <<>>, task_id)
     ELSE Outcome(200, TRUE, new_tasks, task_id)

\* ---- src/app/routes.py ----
\* faulty variant: the emptiness test made on the content before it is stripped
routes_create_task_unstripped(f, c) ==
  IF c.t = "absent" THEN Outcome(400, FALSE, <<>>, 0)
  ELSE IF str(c) = <<>> THEN Outcome(400, FALSE, <<>>, 0)
  ELSE models_add_task(f, Str(strip(str(c))))

\* POST /tasks; c is the payload's "content" (Absent: no such key, or no
\* JSON body)
routes_create_task(f, c) ==
  IF c.t = "absent" THEN Outcome(400, FALSE, <<>>, 0)
  ELSE LET content == strip(str(c))
       IN IF content = <<>> THEN Outcome(400, FALSE, <<>>, 0)
          ELSE models_add_task(f, Str(content))

\* PUT /tasks/<id>
routes_modify_task(f, task_id, c, s) ==
  LET content == pyget(c)
      state == pyget(s)
  IN IF content # Null /\ strip(str(content)) = <<>>
       THEN Outcome(400, FALSE, <<>>, task_id)
       ELSE models_update_task(f, task_id,
              IF content # Null THEN Str(strip(str(content))) ELSE Null,
              state)

\* DELETE /tasks/<id>
routes_remove_task(f, task_id) == models_delete_task(f, task_id)

\* GET /tasks: [status, ret]
routes_get_tasks(f) == [status |-> 200, ret |-> models_load_tasks(f).tasks]


\* ---- src/backend.py ----
\* POST /api/tasks; c, e the payload's "contenido" and "estado"
backend_create_task(f, c, e) ==
  LET contenido == pyget(c)
      estado == IF e.t = "absent" THEN DEFAULT_STATE ELSE e
      loaded == backend_load_tasks(f)
      new_id == backend_new_id(loaded.tasks)
      task == [id |-> new_id, contenido |-> Str(strip(contenido.s)), estado |-> estado]
  IN IF contenido.t # "str" \/ strip(contenido.s) = <<>>
       THEN Outcome(400, FALSE, <<>>, 0)
     ELSE IF loaded.err THEN Outcome(500, FALSE, <<>>, 0)
     ELSE Outcome(201, TRUE, Append(loaded.tasks, task), new_id)

\* the assignments update_task makes to the task it found
backend_apply_update(t, contenido, estado) ==
  [id |-> t.id,
   contenido |-> IF contenido # Null THEN Str(strip(contenido.s)) ELSE t.contenido,
   estado |-> IF estado # Null THEN estado ELSE t.estado]

\* PUT /api/tasks/<id>
backend_update_task(f, task_id, c, e) ==
  LET contenido == pyget(c)
      estado == pyget(e)
      loaded == backend_load_tasks(f)
      i == FirstWithId(loaded.tasks, task_id)
  IN IF contenido # Null /\ (contenido.t # "str" \/ strip(contenido.s) = <<>>)
       THEN Outcome(400, FALSE, <<>>, task_id)
     ELSE IF loaded.err THEN Outcome(500, FALSE, <<>>, task_id)
     ELSE IF i = 0 THEN Outcome(404, FALSE, <<>>, task_id)
     ELSE Outcome(200, TRUE,
                  [loaded.tasks EXCEPT ![i] = backend_apply_update(loaded.tasks[i], contenido, estado)],
                  task_id)

\* DELETE /api/tasks/<id>
backend_delete_task(f, task_id) ==
  LET loaded == backend_load_tasks(f)
      new_tasks == SelectSeq(loaded.tasks, LAMBDA t : t.id # task_id)
  IN IF loaded.err THEN Outcome(500, FALSE, <<>>, task_id)
     ELSE IF Len(new_tasks) = Len(loaded.tasks) THEN Outcome(404, FALSE, <<>>, task_id)
     ELSE Outcome(200, TRUE, new_tasks, task_id)

\* GET /api/tasks: [status, ret]
backend_get_tasks(f) ==
  LET loaded == backend_load_tasks(f)
  IN IF loaded.err THEN [status |-> 500, ret |-> <<>>]
     ELSE [status |-> 200, ret |-> loaded.tasks]


\* ------------------------------------------------------------------------
\* Inputs
\* ------------------------------------------------------------------------
Impls == {"tasks", "models", "backend"}

\* values of the payload's content field: missing, whitespace-only, plain,
\* and padded with whitespace
ContentInputs == {Absent, Str(<<" ">>), Str(<<"a">>), Str(<<" ", "b", "\t">>)}

\* values of the payload's state field: missing, empty, a label
StateInputs == {Absent, Str(<<>>), Hecho}

\* ids a request may name: every id add can assign, and one it never does
RequestIds == 1..(MaxId + 1)

\* the dicts and collections handed directly to the functions of tasks.py
ArgIds == {1, 2, 4}
ArgTasks ==
  {<<Member("id", Num(i)), Member("contenido", Str(<<"x">>)), Member("estado", e)>> :
     i \in ArgIds, e \in {DEFAULT_STATE}}
ArgCollections == UNION {[1..n -> ArgTasks] : n \in 0..MaxArgLen}

\* ------------------------------------------------------------------------
\* State
\* ------------------------------------------------------------------------
VARIABLES
  impl,     \* which variant of the store this deployment runs
  file,     \* TASKS_FILE on disk
  tmp,      \* TASKS_FILE.with_suffix('.tmp') on disk (tasks.py only)
  resp,     \* the last call: its operation, inputs and result
  issued,   \* history: the ids add has assigned so far
  pc,       \* "idle", or where the running save stands
  wbuf,     \* text of the running save not yet on disk
  out,      \* the response the running request gives once its save is done
  saving    \* history: the file before the running or crashed save began
            \* and the file that save is to leave; cleared by the next call
VARIABLES
  reqs      \* the requests a threaded server handles at the same time: for
            \* each where it stands, what it loaded and what it answers

vars == <<impl, file, tmp, resp, issued, pc, wbuf, out, saving, reqs>>

Resp(op, status, id, c, s, saved, arg, ret) ==
  [op |-> op, status |-> status, id |-> id, c |-> c, s |-> s,
   saved |-> saved, arg |-> arg, ret |-> ret]

NoResp == Resp("none", 0, 0, Absent, Absent, FALSE, <<>>, <<>>)

NoSaving == [prev |-> NoFile, next |-> NoFile]

\* the requests in flight at the same time
Procs == {1, 2}

\* a request: pc "ready" (not started), "loaded" (between its _load_tasks
\* and its _save_tasks) or "done" (answered); base the file it loaded,
\* tasks the list it is to save, seq its rank among the saves of the round
Req(rpc, op, id, status, base, tasks, seq) ==
  [pc |-> rpc, op |-> op, id |-> id, status |-> status, base |-> base,
   tasks |-> tasks, seq |-> seq]

NoReq == Req("ready", "none", 0, 0, NoFile, <<>>, 0)

\* the text the variant's save routine writes for an in-memory collection
SaveText(tasks) ==
  CASE impl = "tasks" -> guardar_tareas_text(tasks)
    [] impl = "models" -> models_save_text(tasks)
    [] OTHER -> backend_save_text(tasks)

Init ==
  /\ impl \in Impls
  /\ file = NoFile
  /\ tmp = NoFile
  /\ resp = NoResp
  /\ issued = {}
  /\ pc = "idle"
  /\ wbuf = <<>>
  /\ out = NoResp
  /\ saving = NoSaving
  /\ reqs = [p \in Procs |-> NoReq]

\* ------------------------------------------------------------------------
\* The handlers of each variant, by operation
\* ------------------------------------------------------------------------
CreateOutcome(c, s) ==
  IF impl = "models" THEN routes_create_task(file, c)
  ELSE backend_create_task(file, c, s)

UpdateOutcome(id, c, s) ==
  IF impl = "models" THEN routes_modify_task(file, id, c, s)
  ELSE backend_update_task(file, id, c, s)

DeleteOutcome(id) ==
  IF impl = "models" THEN routes_remove_task(file, id)
  ELSE backend_delete_task(file, id)

GetOutcome ==
  IF impl = "models" THEN routes_get_tasks(file) ELSE backend_get_tasks(file)

\* routes.create_task reads only "content"; backend reads "estado" too
CreateStateInputs == IF impl = "models" THEN {Absent} ELSE StateInputs

RespOf(op, o, c, s) ==
  Resp(op, o.status, o.id, c, s, o.save, IF o.save THEN o.tasks ELSE <<>>, <<>>)

\* ------------------------------------------------------------------------
\* Operations run to completion (one request at a time, no crash)
\* ------------------------------------------------------------------------
\* the request ends: its save, if it reached one, is complete on disk
Serve(o, r) ==
  /\ file' = IF o.save THEN FileWith(SaveText(o.tasks)) ELSE file
  /\ resp' = r
  /\ saving' = NoSaving
  /\ UNCHANGED <<impl, tmp, pc, wbuf, out>>

Create ==
  /\ pc = "idle" /\ impl \in {"models", "backend"}
  /\ \E c \in ContentInputs, s \in CreateStateInputs :
       \E o \in {CreateOutcome(c, s)} :
         /\ o.save => o.id <= MaxId
         /\ Serve(o, RespOf("create", o, c, s))
         /\ issued' = IF o.save THEN issued \cup {o.id} ELSE issued
  /\ UNCHANGED reqs

Update ==
  /\ pc = "idle" /\ impl \in {"models", "backend"}
  /\ \E id \in RequestIds, c \in ContentInputs, s \in StateInputs :
       \E o \in {UpdateOutcome(id, c, s)} :
         /\ Serve(o, RespOf("update", o, c, s))
         /\ UNCHANGED issued
  /\ UNCHANGED reqs

Delete ==
  /\ pc = "idle" /\ impl \in {"models", "backend"}
  /\ \E id \in RequestIds :
       \E o \in {DeleteOutcome(id)} :
         /\ Serve(o, RespOf("delete", o, Absent, Absent))
         /\ UNCHANGED issued
  /\ UNCHANGED reqs

GetAll ==
  /\ pc = "idle" /\ impl \in {"models", "backend"}
  /\ resp' = Resp("get", GetOutcome.status, 0, Absent, Absent, FALSE, <<>>, GetOutcome.ret)
  /\ saving' = NoSaving
  /\ UNCHANGED <<impl, file, tmp, issued, pc, wbuf, out>>
  /\ UNCHANGED reqs

\* tasks.py: its functions called directly, on any collection
Guardar ==
  /\ pc = "idle" /\ impl = "tasks"
  /\ \E tareas \in ArgCollections :
       Serve(Outcome(0, TRUE, tareas, 0),
             Resp("guardar", 0, 0, Absent, Absent, TRUE, tareas, <<>>))
  /\ UNCHANGED issued
  /\ UNCHANGED reqs

Cargar ==
  /\ pc = "idle" /\ impl = "tasks"
  /\ resp' = Resp("cargar", 0, 0, Absent, Absent, FALSE, <<>>, cargar_tareas(file))
  /\ saving' = NoSaving
  /\ UNCHANGED <<impl, file, tmp, issued, pc, wbuf, out>>
  /\ UNCHANGED reqs

GenerarId ==
  /\ pc = "idle" /\ impl = "tasks"
  /\ \E tareas \in ArgCollections :
       resp' = Resp("generar_id", 0, generar_id_unico(tareas), Absent, Absent,
                    FALSE, tareas, <<>>)
  /\ saving' = NoSaving
  /\ UNCHANGED <<impl, file, tmp, issued, pc, wbuf, out>>
  /\ UNCHANGED reqs

Next ==
  \/ Create
  \/ Update
  \/ Delete
  \/ GetAll
  \/ Guardar
  \/ Cargar
  \/ GenerarId

Spec == Init /\ [][Next]_vars


\* ------------------------------------------------------------------------
\* The same operations with the save taken step by step, and a crash of
\* the process possible at every step of it.
\*   models.py, backend.py : open(TASKS_FILE, "w") truncates the file, then
\*                           json.dump writes into it, then it is closed
\*   tasks.py              : the same on the temporary file, then
\*                           tmp_file.replace(TASKS_FILE)
\* ------------------------------------------------------------------------
\* the request up to and including the open(..., "w") of its save
Begin(o, r) ==
  IF o.save
    THEN /\ pc' = "writing"
         /\ wbuf' = SaveText(o.tasks)
         /\ out' = r
         /\ saving' = [prev |-> file, next |-> FileWith(SaveText(o.tasks))]
         /\ IF impl = "tasks"
              THEN tmp' = FileWith(<<>>) /\ file' = file
              ELSE file' = FileWith(<<>>) /\ tmp' = tmp
         /\ resp' = NoResp
         /\ UNCHANGED <<impl, issued>>
    ELSE /\ resp' = r
         /\ saving' = NoSaving
         /\ UNCHANGED <<impl, file, tmp, issued, pc, wbuf, out>>

BeginCreate ==
  /\ pc = "idle" /\ impl \in {"models", "backend"}
  /\ \E c \in ContentInputs, s \in CreateStateInputs :
       \E o \in {CreateOutcome(c, s)} :
         /\ o.save => o.id <= MaxId
         /\ Begin(o, RespOf("create", o, c, s))
  /\ UNCHANGED reqs

BeginUpdate ==
  /\ pc = "idle" /\ impl \in {"models", "backend"}
  /\ \E id \in RequestIds, c \in ContentInputs, s \in StateInputs :
       \E o \in {UpdateOutcome(id, c, s)} : Begin(o, RespOf("update", o, c, s))
  /\ UNCHANGED reqs

BeginDelete ==
  /\ pc = "idle" /\ impl \in {"models", "backend"}
  /\ \E id \in RequestIds :
       \E o \in {DeleteOutcome(id)} : Begin(o, RespOf("delete", o, Absent, Absent))
  /\ UNCHANGED reqs

BeginGuardar ==
  /\ pc = "idle" /\ impl = "tasks"
  /\ \E tareas \in ArgCollections :
       Begin(Outcome(0, TRUE, tareas, 0),
             Resp("guardar", 0, 0, Absent, Absent, TRUE, tareas, <<>>))
  /\ UNCHANGED reqs

\* json.dump's next piece of text reaches the open file
WriteChunk ==
  /\ pc = "writing" /\ wbuf # <<>>
  /\ IF impl = "tasks"
       THEN tmp' = FileWith(Append(tmp.text, Head(wbuf))) /\ file' = file
       ELSE file' = FileWith(Append(file.text, Head(wbuf))) /\ tmp' = tmp
  /\ wbuf' = Tail(wbuf)
  /\ UNCHANGED <<impl, resp, issued, pc, out, saving>>
  /\ UNCHANGED reqs

\* the with block ends; models.py and backend.py are done, tasks.py still
\* has the replace to do
CloseFile ==
  /\ pc = "writing" /\ wbuf = <<>>
  /\ IF impl = "tasks"
       THEN pc' = "replace" /\ UNCHANGED <<resp, issued, out>>
       ELSE /\ pc' = "idle"
            /\ resp' = out
            /\ out' = NoResp
            /\ issued' = IF out.op = "create" THEN issued \cup {out.id} ELSE issued
  /\ saving' = IF impl = "tasks" THEN saving ELSE NoSaving
  /\ UNCHANGED <<impl, file, tmp, wbuf>>
  /\ UNCHANGED reqs

\* tmp_file.replace(TASKS_FILE)
Replace ==
  /\ pc = "replace"
  /\ file' = tmp
  /\ tmp' = NoFile
  /\ pc' = "idle"
  /\ resp' = out
  /\ out' = NoResp
  /\ saving' = NoSaving
  /\ UNCHANGED <<impl, wbuf, issued>>
  /\ UNCHANGED reqs

\* the process dies during a save and is started again; the disk keeps
\* what had reached it
Crash ==
  /\ pc # "idle"
  /\ pc' = "idle"
  /\ wbuf' = <<>>
  /\ out' = NoResp
  /\ resp' = Resp("crash", 0, 0, Absent, Absent, FALSE, <<>>, <<>>)
  /\ UNCHANGED <<impl, file, tmp, issued, saving>>
  /\ UNCHANGED reqs

NextCrash ==
  \/ BeginCreate
  \/ BeginUpdate
  \/ BeginDelete
  \/ BeginGuardar
  \/ GetAll
  \/ Cargar
  \/ WriteChunk
  \/ CloseFile
  \/ Replace
  \/ Crash

SpecCrash == Init /\ [][NextCrash]_vars

\* ------------------------------------------------------------------------
\* The operations run to completion, on a tasks file found missing or cut
\* short at any point (complete files are what the operations then write)
\* ------------------------------------------------------------------------
ProperPrefixes(text) == {SubSeq(text, 1, n) : n \in 0..(Len(text) - 1)}

\* a collection whose text the file found holds, whole or in part
FoundCollection ==
  CASE impl = "tasks" ->
         <<<<Member("id", Num(1)), Member("contenido", Str(<<"x">>)), Member("estado", DEFAULT_STATE)>>,
           <<Member("id", Num(2)), Member("contenido", Str(<<"x">>)), Member("estado", DEFAULT_STATE)>>>>
    [] impl = "models" ->
         <<[id |-> 1, content |-> Str(<<"a">>), state |-> DEFAULT_STATE],
           [id |-> 2, content |-> Str(<<"b">>), state |-> Hecho]>>
    [] OTHER ->
         <<[id |-> 1, contenido |-> Str(<<"a">>), estado |-> DEFAULT_STATE],
           [id |-> 2, contenido |-> Str(<<"b">>), estado |-> Hecho]>>

FoundFiles ==
  {NoFile} \cup {FileWith(t) : t \in ProperPrefixes(SaveText(FoundCollection))}

InitAnyFile ==
  /\ impl \in Impls
  /\ file \in FoundFiles
  /\ tmp = NoFile
  /\ resp = NoResp
  /\ issued = {}
  /\ pc = "idle"
  /\ wbuf = <<>>
  /\ out = NoResp
  /\ saving = NoSaving
  /\ reqs = [p \in Procs |-> NoReq]

SpecAnyFile == InitAnyFile /\ [][Next]_vars

\* ------------------------------------------------------------------------
\* Two requests handled at the same time (a threaded server, or two
\* processes on the same file).  A mutating handler is two steps, its
\* _load_tasks with the change made in memory, and its _save_tasks; nothing
\* in models.py, routes.py or backend.py takes a lock between them.
\* ------------------------------------------------------------------------
\* the requests sent at the same time: an add, a change of state, a delete
ConcRequests ==
  {[op |-> "create", id |-> 0, c |-> Str(<<"a">>), s |-> Absent]}
    \cup {[op |-> "update", id |-> i, c |-> Absent, s |-> Hecho] : i \in 1..MaxId}
    \cup {[op |-> "delete", id |-> i, c |-> Absent, s |-> Absent] : i \in 1..MaxId}

ConcOutcome(r) ==
  CASE r.op = "create" -> CreateOutcome(r.c, r.s)
    [] r.op = "update" -> UpdateOutcome(r.id, r.c, r.s)
    [] OTHER -> DeleteOutcome(r.id)

\* the handler up to its _save_tasks: validation, _load_tasks, the change
\* made on the list in memory; a handler that does not reach _save_tasks
\* answers at once
LoadAndMutate(p) ==
  \E r \in ConcRequests :
    \E o \in {ConcOutcome(r)} :
      /\ o.save => o.id <= MaxId
      /\ reqs' = [reqs EXCEPT ![p] =
                    IF o.save
                      THEN Req("loaded", r.op, o.id, o.status, file, o.tasks, 0)
                      ELSE Req("done", r.op, o.id, o.status, file, <<>>, 0)]

\* faulty variant: a lock held from the load to the save
ConcLoad_locked(p) ==
  /\ impl # "tasks" /\ reqs[p].pc = "ready"
  /\ \A q \in Procs \ {p} : reqs[q].pc # "loaded"
  /\ LoadAndMutate(p)
  /\ UNCHANGED <<impl, file, tmp, resp, issued, pc, wbuf, out, saving>>

\* a request starts whatever the other request is doing
ConcLoad(p) ==
  /\ impl # "tasks" /\ reqs[p].pc = "ready"
  /\ LoadAndMutate(p)
  /\ UNCHANGED <<impl, file, tmp, resp, issued, pc, wbuf, out, saving>>

\* _save_tasks of the list the request holds, and its answer
ConcSave(p) ==
  /\ reqs[p].pc = "loaded"
  /\ file' = FileWith(SaveText(reqs[p].tasks))
  /\ reqs' = [reqs EXCEPT ![p].pc = "done",
                          ![p].seq = 1 + Cardinality({q \in Procs : reqs[q].seq > 0})]
  /\ issued' = IF reqs[p].op = "create" THEN issued \cup {reqs[p].id} ELSE issued
  /\ UNCHANGED <<impl, tmp, resp, pc, wbuf, out, saving>>

\* both requests are answered; the next two may come
ConcFinish ==
  /\ \A p \in Procs : reqs[p].pc = "done"
  /\ reqs' = [p \in Procs |-> NoReq]
  /\ UNCHANGED <<impl, file, tmp, resp, issued, pc, wbuf, out, saving>>

NextConc ==
  \/ \E p \in Procs : ConcLoad(p)
  \/ \E p \in Procs : ConcSave(p)
  \/ ConcFinish

InitConc == Init /\ impl # "tasks"

SpecConc == InitConc /\ [][NextConc]_vars


\* ------------------------------------------------------------------------
\* What the properties read
\* ------------------------------------------------------------------------
\* models.py and backend.py serve add, update and delete; tasks.py does not
Crud == impl \in {"models", "backend"}

Parses(f) == f.exists /\ json_ok(f.text)
Unparseable(f) == f.exists /\ ~json_ok(f.text)

\* the collection a file holds, as the JSON objects in it
PersistedIn(f) == IF Parses(f) THEN json_load(f.text) ELSE <<>>
Persisted == PersistedIn(file)

ContentKey == IF impl = "models" THEN "content" ELSE "contenido"
StateKey == IF impl = "models" THEN "state" ELSE "estado"

IdOf(d) == Get(d, "id", Absent).n
ContentOf(d) == Get(d, ContentKey, Absent)
StateOf(d) == Get(d, StateKey, Absent)
IdsOf(objs) == {IdOf(objs[i]) : i \in 1..Len(objs)}

IsBlank(chars) == \A i \in 1..Len(chars) : chars[i] \in Whitespace
Omitted(v) == v.t \in {"absent", "null"}

\* seq without its k-th element
Without(seq, k) == SubSeq(seq, 1, k - 1) \o SubSeq(seq, k + 1, Len(seq))

\* ------------------------------------------------------------------------
\* C1: with the operations run one at a time from an empty store, no two
\* tasks of the persisted collection have the same id.
\* ------------------------------------------------------------------------
C1_UniqueIds ==
  Crud => \A i, j \in 1..Len(Persisted) :
            i # j => IdOf(Persisted[i]) # IdOf(Persisted[j])

\* two tasks are persisted, the second one just added after the first
C1_Witness ==
  /\ Crud /\ Len(Persisted) = 2
  /\ resp.op = "create" /\ resp.status = 201 /\ resp.id = 2

\* ------------------------------------------------------------------------
\* C2: the id add assigns was never assigned earlier in the run, also when
\* the task that had it has been deleted since.
\* ------------------------------------------------------------------------
C2_NeverReusesId ==
  [][(resp'.op = "create" /\ resp'.status = 201 /\ file' # file)
       => resp'.id \notin issued]_vars

\* ------------------------------------------------------------------------
\* C3: the id generator returns 1 for the empty collection and one more
\* than the largest id otherwise, and the id add gives a new task is
\* greater than every id in the store when add is called.
\* ------------------------------------------------------------------------
C3_NextIdAboveAll ==
  [][/\ resp'.op = "generar_id" =>
          IF resp'.arg = <<>> THEN resp'.id = 1
          ELSE /\ resp'.id - 1 \in IdsOf(resp'.arg)
               /\ \A k \in IdsOf(resp'.arg) : k < resp'.id
     /\ (resp'.op = "create" /\ resp'.status = 201) =>
          /\ \A k \in IdsOf(Persisted) : k < resp'.id
          /\ Persisted = <<>> => resp'.id = 1
          /\ Persisted # <<>> => resp'.id - 1 \in IdsOf(Persisted)
    ]_vars

\* the generator was given the ids 4, 1 in that order and returned 5
C3_Witness ==
  /\ resp.op = "generar_id" /\ Len(resp.arg) = 2
  /\ IdOf(resp.arg[1]) = 4 /\ IdOf(resp.arg[2]) = 1
  /\ resp.id = 5

\* ------------------------------------------------------------------------
\* C4: delete of an id in the store removes that one task and persists the
\* others unchanged in their order, so the id is gone; delete of an id not
\* in the store reports 404 and leaves the persisted collection unchanged.
\* ------------------------------------------------------------------------
C4_DeleteExactly ==
  [][resp'.op = "delete" =>
       /\ resp'.status \in {200, 404}
       /\ resp'.status = 200 =>
            \E before \in {Persisted}, after \in {PersistedIn(file')} :
              /\ \E k \in 1..Len(before) :
                   /\ IdOf(before[k]) = resp'.id
                   /\ after = Without(before, k)
              /\ Parses(file')
              /\ resp'.id \notin IdsOf(after)
       /\ resp'.status = 404 =>
            /\ resp'.id \notin IdsOf(Persisted)
            /\ file' = file
    ]_vars

\* task 1 of two was deleted, task 2 is what is left
C4_Witness ==
  /\ resp.op = "delete" /\ resp.status = 200 /\ resp.id = 1
  /\ Len(Persisted) = 1 /\ IdOf(Persisted[1]) = 2

C6_NoBlankContent ==
  /\ [](Crud => \A i \in 1..Len(Persisted) :
                  /\ ContentOf(Persisted[i]).t = "str"
                  /\ ~IsBlank(ContentOf(Persisted[i]).s))
  /\ [][(resp'.op \in {"create", "update"} /\ resp'.c.t = "str" /\ IsBlank(resp'.c.s))
          => (resp'.status = 400 /\ ~resp'.saved /\ file' = file)]_vars

\* an update with whitespace-only content was rejected on a store of two
\* tasks, one of which it names
C6_Witness ==
  /\ resp.op = "update" /\ resp.status = 400
  /\ resp.c = Str(<<" ">>)
  /\ Len(Persisted) = 2 /\ resp.id \in IdsOf(Persisted)

\* ------------------------------------------------------------------------
\* C7: an update that provides an empty state is rejected with a validation
\* error and leaves the persisted collection unchanged, also when it
\* provides a valid content, so no persisted task has an empty state.
\* ------------------------------------------------------------------------
C7_EmptyStateRejected ==
  [][(resp'.op = "update" /\ resp'.s = Str(<<>>))
       => /\ resp'.status \in {400, 404}
          /\ file' = file
          /\ \A i \in 1..Len(PersistedIn(file')) :
               StateOf(PersistedIn(file')[i]) # Str(<<>>)]_vars

\* ------------------------------------------------------------------------
\* C8: a load that directly follows a save returns the collection that was
\* saved: the same tasks with the same fields in the same order.
\* ------------------------------------------------------------------------
C8_RoundTrip ==
  [][(resp.saved /\ resp'.op \in {"get", "cargar"}) => resp'.ret = resp.arg]_vars

\* a collection of two tasks, ids 4 and 1 in that order, was loaded back
C8_Witness ==
  /\ resp.op = "cargar" /\ Len(resp.ret) = 2
  /\ IdOf(resp.ret[1]) = 4 /\ IdOf(resp.ret[2]) = 1

\* ------------------------------------------------------------------------
\* C9: if the process crashes at any step of a save, the tasks file holds
\* afterwards the complete collection of before the save or the complete
\* collection being saved.
\* ------------------------------------------------------------------------
C9_AtomicSave ==
  resp.op = "crash" => file \in {saving.prev, saving.next}

\* ------------------------------------------------------------------------
\* C10 as stated: on a file that is present but does not parse, load fails
\* with an error instead of returning an empty collection, so no add,
\* update or delete overwrites such a file.
\* ------------------------------------------------------------------------
C10_LoadFailsOnCorrupt ==
  [][Unparseable(file) =>
       /\ resp'.op \in {"get", "cargar"} => resp'.status = 500
       /\ resp'.op \in {"create", "update", "delete"} => file' = file
    ]_vars

\* ------------------------------------------------------------------------
\* C10 as amended: load returns an empty collection when the file is
\* absent and, in tasks.py and app/models.py, also when the file is present
\* but does not parse; only backend.py fails on such a file (status 500),
\* so there no add, update or delete overwrites it, while in app/models.py
\* an add overwrites it with the one task built on the empty list, and
\* update and delete report not-found and leave it.
\* ------------------------------------------------------------------------
C10_LoadOnCorrupt ==
  [][/\ (~file.exists /\ resp'.op \in {"get", "cargar"}) =>
          (resp'.ret = <<>> /\ resp'.status # 500)
     /\ (Unparseable(file) /\ impl = "backend") =>
          /\ resp'.op = "get" => resp'.status = 500
          /\ resp'.op \in {"create", "update", "delete"} =>
               (resp'.status \in {400, 500} /\ file' = file)
     /\ (Unparseable(file) /\ impl = "models") =>
          /\ resp'.op = "get" => (resp'.status = 200 /\ resp'.ret = <<>>)
          /\ (resp'.op = "create" /\ resp'.status # 400) =>
               /\ resp'.status = 201 /\ resp'.id = 1
               /\ Parses(file') /\ IdsOf(PersistedIn(file')) = {1}
               /\ Len(PersistedIn(file')) = 1
          /\ resp'.op \in {"update", "delete"} =>
               (resp'.status \in {400, 404} /\ file' = file)
     /\ (Unparseable(file) /\ impl = "tasks") =>
          (resp'.op = "cargar" => resp'.ret = <<>>)
    ]_vars

\* backend.py answered an add with status 500 on a file cut short after
\* its first task
C10_Witness ==
  /\ impl = "backend" /\ Unparseable(file) /\ Len(file.text) = 2
  /\ resp.op = "create" /\ resp.status = 500


\* ------------------------------------------------------------------------
\* C11: nothing excludes a request from loading while another is between
\* its load and its save; of two requests that loaded the same file and
\* both answered success, the file holds the collection of the one that
\* saved last and the other's add, update or delete is lost, and two such
\* adds are given the same id.
\* ------------------------------------------------------------------------
C11_LastWriterWins ==
  \A p \in Procs : \A q \in Procs \ {p} :
    /\ (reqs[p].pc = "loaded" /\ reqs[q].pc = "ready") => ENABLED ConcLoad(q)
    /\ (reqs[p].seq = 2 /\ reqs[q].seq = 1) =>
         /\ file = FileWith(SaveText(reqs[p].tasks))
         /\ reqs[p].base = reqs[q].base =>
              \E before \in {PersistedIn(reqs[p].base)}, after \in {Persisted} :
                /\ (reqs[p].op = "create" /\ reqs[q].op = "create") =>
                     /\ reqs[p].id = reqs[q].id
                     /\ Len(after) = Len(before) + 1
                /\ (reqs[q].op = "create" /\ reqs[p].op # "create") =>
                     reqs[q].id \notin IdsOf(after)
                /\ (reqs[q].op = "delete" /\ reqs[p].id # reqs[q].id) =>
                     reqs[q].id \in IdsOf(after)
                /\ (reqs[q].op = "update" /\ reqs[p].id # reqs[q].id) =>
                     \E k \in 1..Len(before) :
                       /\ IdOf(before[k]) = reqs[q].id
                       /\ \E j \in 1..Len(after) : after[j] = before[k]

\* two adds loaded the same one-task file, both were answered 201 with id
\* 2, and the file holds two tasks: one of the adds is lost
C11_Witness ==
  /\ \A p \in Procs :
       reqs[p].pc = "done" /\ reqs[p].op = "create" /\ reqs[p].status = 201
         /\ reqs[p].id = 2 /\ reqs[p].seq > 0
  /\ reqs[1].base = reqs[2].base
  /\ Len(PersistedIn(reqs[1].base)) = 1
  /\ Len(Persisted) = 2

====
